---- MODULE Spec2Model ----
(***************************************************************************)
(* Model of UserCohortSystem (src/cohort_visualization.py): the condition  *)
(* evaluator _users_meeting_condition, the cohort fold execute_cohort and  *)
(* the cohort registry (create_cohort, get_cohort_users, analyze_cohorts). *)
(*                                                                         *)
(* Python values are represented as follows.                               *)
(*   dict            a TLA+ record; a key the dict lacks is a field the    *)
(*                   record lacks, so d["k"] on it raises KeyError         *)
(*   None            the string NoneVal                                    *)
(*   NaN price       the empty sequence; a price p is <<p>>                *)
(*   timestamps      whole days                                            *)
(*   a call          returns [err, val]: err = "" and val the returned     *)
(*                   value, or err the name of the raised exception        *)
(***************************************************************************)
EXTENDS Integers, Sequences, FiniteSets, TLC

VARIABLES user_events, now, cohorts, op, arg, result, err

vars == <<user_events, now, cohorts, op, arg, result, err>>

(***************************************************************************)
(* Python helpers                                                          *)
(***************************************************************************)
NoneVal == "<None>"

NaN == <<>>

Ok(v) == [err |-> "", val |-> v]

Raise(e) == [err |-> e, val |-> {}]

Has(d, k) == k \in DOMAIN d

\* dict.get(k, default)
Get(d, k, default) == IF Has(d, k) THEN d[k] ELSE default

\* `v or default` for a string-or-None v: None and "" are falsy
OrElse(v, default) == IF v = NoneVal \/ v = "" THEN default ELSE v

\* str.upper() on the logic tokens of the model
Upper(s) ==
  CASE s = "or"  -> "OR"
    [] s = "Or"  -> "OR"
    [] s = "and" -> "AND"
    [] s = "xor" -> "XOR"
    [] OTHER     -> s

\* sorted(list(S)) for a set of user ids: Python orders str lexicographically
UserOrder == <<"A", "B">>

\* variant: the users are returned in descending order
SortedDescending(S) ==
  LET n == Len(UserOrder)
  IN  SelectSeq([k \in 1..n |-> UserOrder[n + 1 - k]], LAMBDA u : u \in S)

\* sorted(list(current_set))
Sorted(S) == SelectSeq(UserOrder, LAMBDA u : u \in S)

RECURSIVE SeqSum(_)
SeqSum(s) == IF s = <<>> THEN 0 ELSE Head(s) + SeqSum(Tail(s))

Range(s) == {s[i] : i \in DOMAIN s}

(***************************************************************************)
(* The event table: the DataFrame self.user_events.  The columns category  *)
(* and brand are string columns like sku_id and are left out.              *)
(***************************************************************************)
Columns == {"user_id", "event", "timestamp", "price", "sku_id"}

\* the rows of one user, in table order (a groupby("user_id") group)
Group(rows, u) == SelectSeq(rows, LAMBDA e : e.user_id = u)

\* the non-NaN prices of a group, in table order
Prices(rows) ==
  LET priced == SelectSeq(rows, LAMBDA e : e.price # NaN)
  IN  [i \in DOMAIN priced |-> priced[i].price[1]]

\* groupby("user_id").size()
GroupSize(rows) == <<Len(rows), 1>>

\* variant: the first price of the group stands for its sum
GroupSumOfFirst(rows) ==
  <<IF Prices(rows) = <<>> THEN 0 ELSE Head(Prices(rows)), 1>>

\* groupby("user_id")["price"].sum().fillna(0): NaN is skipped by sum, and
\* the sum of a group without any price is 0
GroupSum(rows) == <<SeqSum(Prices(rows)), 1>>

\* variant: NaN is replaced by 0 before the mean is taken
GroupMeanFillFirst(rows) == <<SeqSum(Prices(rows)), Len(rows)>>

\* groupby("user_id")["price"].mean().fillna(0): NaN is skipped by mean, the
\* mean of a group without any price is NaN, which fillna turns into 0.
\* The mean is kept as the exact fraction <<numerator, denominator>>.
GroupMean(rows) ==
  IF Prices(rows) = <<>> THEN <<0, 1>>
  ELSE <<SeqSum(Prices(rows)), Len(Prices(rows))>>

\* groupby("user_id")[target_prop].nunique(): NaN is not counted
GroupNunique(rows, target_prop) ==
  IF target_prop = "price" THEN <<Cardinality(Range(Prices(rows))), 1>>
  ELSE <<Cardinality({e[target_prop] : e \in Range(rows)}), 1>>

\* variant: >= is evaluated as <=
CompareGeAsLe(comparator, agg, value) ==
  CASE comparator = ">=" -> agg[1] <= value * agg[2]
    [] comparator = ">"  -> agg[1] >  value * agg[2]
    [] comparator = "<=" -> agg[1] <= value * agg[2]
    [] comparator = "<"  -> agg[1] <  value * agg[2]
    [] comparator = "==" -> agg[1] =  value * agg[2]
    [] OTHER -> FALSE

\* grp <comparator> value on one aggregate <<n, d>> (d > 0)
Compare(comparator, agg, value) ==
  CASE comparator = ">=" -> agg[1] >= value * agg[2]
    [] comparator = ">"  -> agg[1] >  value * agg[2]
    [] comparator = "<=" -> agg[1] <= value * agg[2]
    [] comparator = "<"  -> agg[1] <  value * agg[2]
    [] comparator = "==" -> agg[1] =  value * agg[2]
    [] OTHER -> FALSE

Comparators == {">=", ">", "<=", "<", "=="}

\* the aggregate a branch computes on one group: size(), ["price"].sum(),
\* ["price"].mean() or [target_prop].nunique()
Aggregate(how, rows, target_prop) ==
  CASE how = "size"    -> GroupSize(rows)
    [] how = "sum"     -> GroupSum(rows)
    [] how = "mean"    -> GroupMean(rows)
    [] how = "nunique" -> GroupNunique(rows, target_prop)

\* a grouped Series: user_id -> aggregate, over the users of `filtered`
Series(filtered, how, target_prop) ==
  [u \in {e.user_id : e \in Range(filtered)} |->
     Aggregate(how, Group(filtered, u), target_prop)]

\* variant: a user without a row in the filtered frame has the aggregate 0
SelectZeroFilled(condition, grp) ==
  IF ~Has(condition, "condition") THEN Raise("KeyError")
  ELSE IF condition["condition"] \notin Comparators THEN Ok({})
  ELSE IF ~Has(condition, "value") THEN Raise("KeyError")
  ELSE Ok({u \in Range(UserOrder) :
             Compare(condition["condition"],
                     IF u \in DOMAIN grp THEN grp[u] ELSE <<0, 1>>,
                     condition["value"])})

\* the if / elif chain on condition["condition"] that every branch repeats:
\* condition["condition"] is read first, condition["value"] only inside a
\* branch of a recognised comparator; any other comparator gives set()
Select(condition, grp) ==
  IF ~Has(condition, "condition") THEN Raise("KeyError")
  ELSE IF condition["condition"] \notin Comparators THEN Ok({})
  ELSE IF ~Has(condition, "value") THEN Raise("KeyError")
  ELSE Ok({u \in DOMAIN grp :
             Compare(condition["condition"], grp[u], condition["value"])})

\* the distinct_count branch: the column lookup raises KeyError for a
\* property that is no column of the table
DistinctCount(condition, filtered, prop) ==
  LET target_prop == IF prop # "" THEN prop ELSE "sku_id"
  IN  IF target_prop \notin Columns THEN Raise("KeyError")
      ELSE Select(condition, Series(filtered, "nunique", target_prop))

\* variant: an unrecognised operation matches nobody
FallbackNone(condition, filtered) == Ok({})

\* variant: the branch adds up the prices whatever the property
FallbackSumsPrice(condition, filtered) ==
  Select(condition, Series(filtered, "sum", "price"))

\* the final else branch: "fallback: treat as count"
Fallback(condition, filtered) == Select(condition, Series(filtered, "size", ""))

\* variant: a row exactly at the cutoff is outside the window
FilterAfterCutoff(events, action, cutoff) ==
  SelectSeq(events, LAMBDA e : e.event = action /\ e.timestamp > cutoff)

\* self.user_events[(event == action) & (timestamp >= cutoff)]
Filter(events, action, cutoff) ==
  SelectSeq(events, LAMBDA e : e.event = action /\ e.timestamp >= cutoff)

users_meeting_condition(events, nw, condition) ==
  IF ~Has(condition, "action") \/ ~Has(condition, "operation")
  THEN Raise("KeyError")
  ELSE
  LET action    == condition["action"]
      operation == condition["operation"]
      prop      == Get(condition, "property", "")
      timeframe == Get(condition, "timeframe", 30)
      cutoff    == nw - timeframe
      filtered  == Filter(events, action, cutoff)
  IN  IF filtered = <<>> THEN Ok({})
      ELSE IF operation = "count"
        THEN Select(condition, Series(filtered, "size", ""))
      ELSE IF operation = "sum" /\ prop = "price"
        THEN Select(condition, Series(filtered, "sum", "price"))
      ELSE IF operation = "avg" /\ prop = "price"
        THEN Select(condition, Series(filtered, "mean", "price"))
      ELSE IF operation = "distinct_count"
        THEN DistinctCount(condition, filtered, prop)
      ELSE Fallback(condition, filtered)

(***************************************************************************)
(* execute_cohort                                                          *)
(***************************************************************************)
\* set(self.user_events["user_id"].unique())
Universe(events) == {e.user_id : e \in Range(events)}

\* variant: the include flag is not applied
CondUsersNoFlip(universe, cond, met_users) == met_users

\* apply include/exclude
CondUsers(universe, cond, met_users) ==
  IF Get(cond, "include", TRUE) THEN met_users ELSE universe \ met_users

\* variant: the logic token is read from the condition before position i
LogicOfPrev(conditions, i) ==
  Upper(OrElse(Get(conditions[i - 1], "logic", NoneVal), "AND"))

\* (cond.get("logic") or "AND").upper() of the condition at position i
LogicOf(conditions, i) ==
  Upper(OrElse(Get(conditions[i], "logic", NoneVal), "AND"))

\* variant: an unrecognised logic token joins by union
CombineUnknownAsOr(current_set, logic, cond_users) ==
  IF logic = "AND" THEN current_set \cap cond_users
  ELSE current_set \cup cond_users

\* current_set &= cond_users / current_set |= cond_users
Combine(current_set, logic, cond_users) ==
  IF logic = "AND" THEN current_set \cap cond_users
  ELSE IF logic = "OR" THEN current_set \cup cond_users
  ELSE current_set \cap cond_users

\* the for loop from position i on; current_set is <<>> for None and <<S>>
\* for the set S
RECURSIVE ExecLoop(_, _, _, _, _)
ExecLoop(events, nw, conditions, i, current_set) ==
  IF i > Len(conditions)
  THEN IF current_set = <<>> THEN Ok(<<>>) ELSE Ok(Sorted(current_set[1]))
  ELSE
  LET cond == conditions[i]
      met  == users_meeting_condition(events, nw, cond)
      cond_users == CondUsers(Universe(events), cond, met.val)
  IN  IF met.err # "" THEN Raise(met.err)
      ELSE IF current_set = <<>>
        THEN ExecLoop(events, nw, conditions, i + 1, <<cond_users>>)
      ELSE ExecLoop(events, nw, conditions, i + 1,
             <<Combine(current_set[1], LogicOf(conditions, i), cond_users)>>)

\* variant: a cohort without conditions constrains nothing and matches the
\* whole universe
execute_cohort_all(events, nw, cohort) ==
  LET conditions == Get(cohort, "conditions", <<>>)
  IN  IF conditions = <<>> THEN Ok(Sorted(Universe(events)))
      ELSE ExecLoop(events, nw, conditions, 1, <<>>)

\* conditions = cohort.get("conditions", []); if not conditions: return []
execute_cohort(events, nw, cohort) ==
  LET conditions == Get(cohort, "conditions", <<>>)
  IN  IF conditions = <<>> THEN Ok(<<>>)
      ELSE ExecLoop(events, nw, conditions, 1, <<>>)

(***************************************************************************)
(* The cohort registry.  Of a cohort dict the fields id, name, conditions  *)
(* and active are kept; description, created_date and created_by are      *)
(* strings no operation reads back.                                        *)
(***************************************************************************)
Cond(include, action, operation, property, comparator, value, timeframe, logic) ==
  [include |-> include, action |-> action, operation |-> operation,
   property |-> property, condition |-> comparator, value |-> value,
   timeframe |-> timeframe, logic |-> logic]

Cohort(id, name, conditions) ==
  [id |-> id, name |-> name, conditions |-> conditions, active |-> TRUE]

\* initialize_sample_cohorts: the three sample cohorts and the three
\* premium tiers
SampleCohorts == <<
  Cohort(1, "High Value Abandoned Cart", <<
    Cond(TRUE, "cart_added", "sum", "price", ">=", 3000, 7, "AND"),
    Cond(FALSE, "payment_successful", "count", "events", ">=", 1, 7, NoneVal)>>),
  Cohort(2, "Checkout Abandoners", <<
    Cond(TRUE, "checkout_clicked", "count", "events", ">=", 1, 7, "AND"),
    Cond(FALSE, "payment_successful", "count", "events", ">=", 1, 7, NoneVal)>>),
  Cohort(3, "Browser Non-Purchasers", <<
    Cond(TRUE, "PDP_view", "count", "events", ">=", 5, 7, "AND"),
    Cond(FALSE, "cart_added", "count", "events", ">=", 1, 7, NoneVal)>>),
  Cohort(4, "Platinum", <<
    Cond(TRUE, "payment_successful", "sum", "price", ">=", 15000, 365, "AND"),
    Cond(TRUE, "payment_successful", "count", "events", ">=", 5, 365, "AND"),
    Cond(TRUE, "cart_added", "avg", "price", ">=", 2000, 365, "AND"),
    Cond(TRUE, "payment_successful", "count", "events", ">=", 1, 90, NoneVal)>>),
  Cohort(5, "Gold", <<
    Cond(TRUE, "payment_successful", "sum", "price", ">=", 7000, 365, "AND"),
    Cond(TRUE, "payment_successful", "count", "events", ">=", 3, 365, "AND"),
    Cond(TRUE, "cart_added", "avg", "price", ">=", 1000, 365, "AND"),
    Cond(TRUE, "payment_successful", "count", "events", ">=", 1, 180, NoneVal)>>),
  Cohort(6, "Silver", <<
    Cond(TRUE, "payment_successful", "sum", "price", ">=", 2000, 365, "AND"),
    Cond(TRUE, "payment_successful", "count", "events", ">=", 1, 365, "AND"),
    Cond(TRUE, "cart_added", "avg", "price", ">=", 500, 365, "AND"),
    Cond(TRUE, "payment_successful", "count", "events", ">=", 1, 365, NoneVal)>> )>>

\* variant: the id is the number of cohorts, not that number plus one
create_cohort_len(registry, name, conditions) ==
  [id |-> Len(registry), name |-> name, conditions |-> conditions,
   active |-> TRUE]

\* the dict create_cohort builds, appends and returns
create_cohort(registry, name, conditions) ==
  [id |-> Len(registry) + 1, name |-> name, conditions |-> conditions,
   active |-> TRUE]

\* next((c for c in self.cohorts if c["id"] == cohort_id), None): <<>> for
\* None, <<c>> for the first cohort with that id
Lookup(registry, cohort_id) ==
  LET found == SelectSeq(registry, LAMBDA c : c.id = cohort_id)
  IN  IF found = <<>> THEN <<>> ELSE <<found[1]>>

\* variant: the active flag is not looked at
get_cohort_users_any(registry, events, nw, cohort_id) ==
  LET cohort == Lookup(registry, cohort_id)
  IN  IF cohort = <<>> THEN Ok(<<>>)
      ELSE execute_cohort(events, nw, cohort[1])

get_cohort_users(registry, events, nw, cohort_id) ==
  LET cohort == Lookup(registry, cohort_id)
  IN  IF cohort = <<>> THEN Ok(<<>>)
      ELSE IF ~Get(cohort[1], "active", FALSE) THEN Ok(<<>>)
      ELSE execute_cohort(events, nw, cohort[1])

\* the loop of analyze_cohorts from position i on, `results` the rows so far
RECURSIVE AnalyzeLoop(_, _, _, _, _)
AnalyzeLoop(registry, events, nw, i, results) ==
  IF i > Len(registry) THEN Ok(results)
  ELSE
  LET cohort == registry[i]
      users  == execute_cohort(events, nw, cohort)
  IN  IF ~Get(cohort, "active", FALSE)
        THEN AnalyzeLoop(registry, events, nw, i + 1, results)
      ELSE IF users.err # "" THEN Raise(users.err)
      ELSE AnalyzeLoop(registry, events, nw, i + 1,
             Append(results,
               [cohort_id |-> cohort.id, cohort_name |-> cohort.name,
                user_count |-> Len(users.val),
                conditions_count |-> Len(Get(cohort, "conditions", <<>>))]))

analyze_cohorts(registry, events, nw) == AnalyzeLoop(registry, events, nw, 1, <<>>)

(***************************************************************************)
(* Inputs: event tables                                                    *)
(***************************************************************************)
MaxEvents == 2

NowSet == {8}

UserSeq == UserOrder

ActionSeq == <<"cart_added", "payment_successful">>

\* with now = 8 and a timeframe of 7 days the cutoff is day 1: day 0 is
\* outside the window, day 1 is on its boundary
TimestampSeq == <<0, 1>>

PriceSeq == <<NaN, <<1000>> >>

SkuSeq == <<"SKU1", "SKU2">>

NEvents == Len(UserSeq) * Len(ActionSeq) * Len(TimestampSeq) * Len(PriceSeq) * Len(SkuSeq)

\* the k-th row of the row universe, user-major as generate_sample_data
\* emits rows
EventAt(k) ==
  LET i0 == k - 1
      sk == i0 % Len(SkuSeq)
      i1 == i0 \div Len(SkuSeq)
      pr == i1 % Len(PriceSeq)
      i2 == i1 \div Len(PriceSeq)
      ts == i2 % Len(TimestampSeq)
      i3 == i2 \div Len(TimestampSeq)
      ac == i3 % Len(ActionSeq)
      us == i3 \div Len(ActionSeq)
  IN  [user_id |-> UserSeq[us + 1], event |-> ActionSeq[ac + 1],
       timestamp |-> TimestampSeq[ts + 1], price |-> PriceSeq[pr + 1],
       sku_id |-> SkuSeq[sk + 1]]

\* Tables of n rows.  Rows are emitted user by user; no grouped aggregate
\* depends on the order of the rows inside a group, so one order is kept
\* for each multiset of rows.
TablesOfLen(n) ==
  {[j \in 1..n |-> EventAt(f[j])] :
     f \in {g \in [1..n -> 1..NEvents] : \A j \in 1..(n - 1) : g[j] <= g[j + 1]}}

Tables == UNION {TablesOfLen(n) : n \in 1..MaxEvents}

\* the scenario of the specification: A adds 2000 on day 1 and 1500 on
\* day 2 to the cart, B adds 500 on day 1; nobody pays
ScenarioEvents == <<
  [user_id |-> "A", event |-> "cart_added", timestamp |-> 1,
   price |-> <<2000>>, sku_id |-> "SKU1"],
  [user_id |-> "A", event |-> "cart_added", timestamp |-> 2,
   price |-> <<1500>>, sku_id |-> "SKU2"],
  [user_id |-> "B", event |-> "cart_added", timestamp |-> 1,
   price |-> <<500>>, sku_id |-> "SKU1"] >>

\* tables for the evaluator
CondTables == Tables \cup {ScenarioEvents}

\* tables for the fold: rows inside and outside the window, each with a
\* price and the same sku
ExecTables ==
  {t \in Tables : \A j \in DOMAIN t :
     t[j].price # NaN /\ t[j].sku_id = "SKU1"}
  \cup {ScenarioEvents}

\* tables for the registry: the rows of ExecTables inside the window
RegistryTables ==
  {t \in ExecTables : \A j \in DOMAIN t : t[j].timestamp >= 1}

(***************************************************************************)
(* Inputs: conditions                                                      *)
(***************************************************************************)
Operations == {"count", "sum", "avg", "distinct_count", "median"}

Properties == {"price", "sku_id", "events"}

ComparatorTokens == Comparators \cup {"!="}

Values == {1, 1000}

\* conditions for the evaluator: every operation, property, comparator
\* and value; with and without the optional property key
FullConditions ==
  [action : {"cart_added"}, operation : Operations, property : Properties,
   condition : ComparatorTokens, value : Values, timeframe : {7},
   include : {TRUE}, logic : {NoneVal}]

NoPropertyConditions ==
  [action : {"cart_added"}, operation : Operations,
   condition : ComparatorTokens, value : Values, timeframe : {7},
   include : {TRUE}, logic : {NoneVal}]

\* the two conditions of the scenario of the specification
ScenarioCond1 ==
  [action |-> "cart_added", operation |-> "sum", property |-> "price",
   condition |-> ">=", value |-> 3000, timeframe |-> 7, include |-> TRUE]

ScenarioCond2 ==
  [action |-> "payment_successful", operation |-> "count",
   condition |-> ">=", value |-> 1, timeframe |-> 7, include |-> FALSE,
   logic |-> "AND"]

Conditions == FullConditions \cup NoPropertyConditions
              \cup {ScenarioCond1, ScenarioCond2}

\* conditions for the fold: count >= 1 of either action, included or
\* excluded, under each recognised logic token
CoreConditions ==
  [include : BOOLEAN, action : {"cart_added", "payment_successful"},
   operation : {"count"}, property : {"events"}, condition : {">="},
   value : {1}, timeframe : {7}, logic : {"AND", "OR"}]

\* the other cases of a condition in a fold: None, unrecognised, lower-case
\* and empty logic tokens; no logic key; no include key; an unknown comparator;
\* an unknown operation; distinct_count over a name that is no column; a
\* threshold of two events; the scenario
EdgeConditions ==
  [include : BOOLEAN, action : {"payment_successful"},
   operation : {"count"}, property : {"events"}, condition : {">="},
   value : {1}, timeframe : {7}, logic : {NoneVal, "XOR", "or", ""}]
  \cup [include : BOOLEAN, action : {"payment_successful"},
        operation : {"count"}, property : {"events"}, condition : {">="},
        value : {1}, timeframe : {7}]
  \cup [action : {"cart_added"}, operation : {"count"}, property : {"events"},
        condition : {">="}, value : {1}, timeframe : {7}, logic : {"AND", "OR"}]
  \cup [include : BOOLEAN, action : {"cart_added"}, operation : {"count"},
        property : {"events"}, condition : {"!="}, value : {1},
        timeframe : {7}, logic : {"AND"}]
  \cup [include : {TRUE}, action : {"cart_added"},
        operation : {"median", "distinct_count"}, property : {"events"},
        condition : {">="}, value : {1}, timeframe : {7}, logic : {"OR"}]
  \cup [include : {TRUE}, action : {"cart_added"}, operation : {"count"},
        property : {"events"}, condition : {">="}, value : {2},
        timeframe : {7}, logic : {"AND", "OR"}]
  \cup {ScenarioCond1, ScenarioCond2}

MaxConds == 3

SeqsOfLen(S, n) == [1..n -> S]

\* the cohorts handed to execute_cohort: up to MaxConds core conditions,
\* and up to two conditions of any kind
ExecConditionLists ==
  UNION {SeqsOfLen(CoreConditions, n) : n \in 1..MaxConds}
  \cup UNION {SeqsOfLen(CoreConditions \cup EdgeConditions, n) : n \in 1..2}

ExecCohorts == {[name |-> "input", conditions |-> cs] : cs \in ExecConditionLists}

\* count conditions whose comparator and value accept an aggregate of 0
\* (count < 1, count <= 3, count == 0) or reject it, over a window of 7
\* days (cutoff day 1) or of 8 days (cutoff day 0)
ZeroAcceptingConditions ==
  [action : {"cart_added"}, operation : {"count"}, property : {"events"},
   condition : Comparators, value : {0, 3}, timeframe : {7, 8},
   include : {TRUE}, logic : {NoneVal}]

EvalConditions == Conditions \cup ZeroAcceptingConditions

\* cohorts with an empty conditions list, without a conditions key, and
\* with one included or excluded count condition
EvalCohorts ==
  {[name |-> "input", conditions |-> <<>>], [name |-> "input"]}
  \cup {[name |-> "input", conditions |-> <<[c EXCEPT !.include = b]>>] :
          c \in ZeroAcceptingConditions, b \in BOOLEAN}

\* the condition lists handed to create_cohort
CreateConditionLists == {
  <<>>,
  <<Cond(TRUE, "cart_added", "count", "events", ">=", 1, 30, NoneVal)>>,
  <<Cond(TRUE, "cart_added", "count", "events", ">=", 1, 7, "AND"),
    Cond(FALSE, "payment_successful", "count", "events", ">=", 1, 7, NoneVal)>>,
  <<ScenarioCond1, ScenarioCond2>>,
  <<[operation |-> "count", property |-> "events", condition |-> ">=",
     value |-> 1, timeframe |-> 7, include |-> TRUE, logic |-> NoneVal]>>,
  <<[action |-> "cart_added", operation |-> "count", property |-> "events",
     value |-> 1, timeframe |-> 7, include |-> TRUE, logic |-> NoneVal]>> }

MaxCreated == 2

CohortIds == 0..(Len(SampleCohorts) + MaxCreated + 1)

\* registries for get_cohort_users: cohorts that are active, inactive or
\* without an active key, with ids that may repeat or be absent
MaxRegistry == 2

LookupConditionLists == {
  <<Cond(TRUE, "cart_added", "count", "events", ">=", 1, 7, NoneVal)>>,
  <<Cond(FALSE, "cart_added", "count", "events", ">=", 1, 7, NoneVal)>>,
  <<[operation |-> "count", condition |-> ">=", value |-> 1]>> }

LookupCohorts ==
  [id : 1..MaxRegistry, name : {"c"}, conditions : LookupConditionLists,
   active : BOOLEAN]
  \cup [id : 1..MaxRegistry, name : {"c"}, conditions : LookupConditionLists]

Registries == UNION {SeqsOfLen(LookupCohorts, n) : n \in 1..MaxRegistry}

\* registries for analyze_cohorts: the sample cohorts followed by up to
\* MaxRegistry cohorts numbered on, each active, inactive or without an
\* active key; their conditions are evaluable, lack required keys, or count
\* the distinct values of a name that is no column
SummaryConditionLists ==
  LookupConditionLists
  \cup {<<Cond(TRUE, "cart_added", "distinct_count", "events", ">=", 1, 7, NoneVal)>>}

SummaryCohorts(id) ==
  [id : {id}, name : {"c"}, conditions : SummaryConditionLists, active : BOOLEAN]
  \cup [id : {id}, name : {"c"}, conditions : SummaryConditionLists]

SummaryRegistries ==
  {SampleCohorts \o tail :
     tail \in UNION {{t \in SeqsOfLen(UNION {SummaryCohorts(Len(SampleCohorts) + k) :
                                              k \in 1..MaxRegistry}, n) :
                       \A k \in 1..n : t[k].id = Len(SampleCohorts) + k} :
                     n \in 0..MaxRegistry}}

(***************************************************************************)
(* State and operations                                                    *)
(***************************************************************************)
\* the state after __init__: the generated table, the captured instant and
\* the sample cohorts; no call made yet
Init ==
  /\ user_events \in RegistryTables
  /\ now \in NowSet
  /\ cohorts = SampleCohorts
  /\ op = ""
  /\ arg = <<>>
  /\ result = <<>>
  /\ err = ""

UsersMeetingCondition(condition) ==
  LET r == users_meeting_condition(user_events, now, condition)
  IN  /\ op' = "users_meeting_condition"
      /\ arg' = condition
      /\ result' = r.val
      /\ err' = r.err
      /\ UNCHANGED <<user_events, now, cohorts>>

ExecuteCohort(cohort) ==
  LET r == execute_cohort(user_events, now, cohort)
  IN  /\ op' = "execute_cohort"
      /\ arg' = cohort
      /\ result' = r.val
      /\ err' = r.err
      /\ UNCHANGED <<user_events, now, cohorts>>

\* variant: the new cohort is inserted at the head of the registry
CreateCohortAtHead(name, conditions) ==
  LET cohort == create_cohort(cohorts, name, conditions)
  IN  /\ Len(cohorts) < Len(SampleCohorts) + MaxCreated
      /\ cohorts' = <<cohort>> \o cohorts
      /\ op' = "create_cohort"
      /\ arg' = conditions
      /\ result' = cohort
      /\ err' = ""
      /\ UNCHANGED <<user_events, now>>

CreateCohort(name, conditions) ==
  LET cohort == create_cohort(cohorts, name, conditions)
  IN  /\ Len(cohorts) < Len(SampleCohorts) + MaxCreated
      /\ cohorts' = Append(cohorts, cohort)
      /\ op' = "create_cohort"
      /\ arg' = conditions
      /\ result' = cohort
      /\ err' = ""
      /\ UNCHANGED <<user_events, now>>

GetCohortUsers(cohort_id) ==
  LET r == get_cohort_users(cohorts, user_events, now, cohort_id)
  IN  /\ op' = "get_cohort_users"
      /\ arg' = cohort_id
      /\ result' = r.val
      /\ err' = r.err
      /\ UNCHANGED <<user_events, now, cohorts>>

\* variant: the summary reads the clock again
AnalyzeCohortsNewClock ==
  LET r == analyze_cohorts(cohorts, user_events, now + 1)
  IN  /\ op' = "analyze_cohorts"
      /\ arg' = <<>>
      /\ result' = r.val
      /\ err' = r.err
      /\ now' = now + 1
      /\ UNCHANGED <<user_events, cohorts>>

AnalyzeCohorts ==
  LET r == analyze_cohorts(cohorts, user_events, now)
  IN  /\ op' = "analyze_cohorts"
      /\ arg' = <<>>
      /\ result' = r.val
      /\ err' = r.err
      /\ UNCHANGED <<user_events, now, cohorts>>

\* the registry under any sequence of its operations
Next ==
  \/ \E conditions \in CreateConditionLists : CreateCohort("created", conditions)
  \/ \E cohort_id \in CohortIds : GetCohortUsers(cohort_id)
  \/ AnalyzeCohorts

Spec == Init /\ [][Next]_vars

\* one evaluation of one condition over any table
InitCond ==
  /\ user_events \in CondTables
  /\ now \in NowSet
  /\ cohorts = SampleCohorts
  /\ op = ""
  /\ arg = <<>>
  /\ result = <<>>
  /\ err = ""

NextCond == op = "" /\ \E condition \in Conditions : UsersMeetingCondition(condition)

SpecCond == InitCond /\ [][NextCond]_vars

\* one evaluation of one cohort
NextExec == op = "" /\ \E cohort \in ExecCohorts : ExecuteCohort(cohort)

InitExec ==
  /\ user_events \in ExecTables
  /\ now \in NowSet
  /\ cohorts = SampleCohorts
  /\ op = ""
  /\ arg = <<>>
  /\ result = <<>>
  /\ err = ""

SpecExec == InitExec /\ [][NextExec]_vars

\* one lookup in any registry
InitLookup ==
  /\ user_events \in RegistryTables
  /\ now \in NowSet
  /\ cohorts \in Registries
  /\ op = ""
  /\ arg = <<>>
  /\ result = <<>>
  /\ err = ""

NextLookup == op = "" /\ \E cohort_id \in 0..(MaxRegistry + 1) : GetCohortUsers(cohort_id)

SpecLookup == InitLookup /\ [][NextLookup]_vars

\* one evaluation of one condition, or of one cohort of at most one
\* condition, over any table
NextEval ==
  /\ op = ""
  /\ \/ \E condition \in EvalConditions : UsersMeetingCondition(condition)
     \/ \E cohort \in EvalCohorts : ExecuteCohort(cohort)

SpecEval == InitCond /\ [][NextEval]_vars

\* one summary of any registry
InitSummary ==
  /\ user_events \in RegistryTables
  /\ now \in NowSet
  /\ cohorts \in SummaryRegistries
  /\ op = ""
  /\ arg = <<>>
  /\ result = <<>>
  /\ err = ""

NextSummary == op = "" /\ AnalyzeCohorts

SpecSummary == InitSummary /\ [][NextSummary]_vars

\* any sequence of evaluations over one snapshot: cohorts of the registry
\* and other cohorts executed directly, looked up by id, and summarised
NextPure ==
  \/ \E i \in DOMAIN cohorts : ExecuteCohort(cohorts[i])
  \/ \E cohort \in EvalCohorts : ExecuteCohort(cohort)
  \/ \E cohort_id \in CohortIds : GetCohortUsers(cohort_id)
  \/ AnalyzeCohorts

SpecPure == Init /\ [][NextPure]_vars

(***************************************************************************)
(* Properties.  They are stated on the state a call leaves behind: op the  *)
(* call, arg its argument, result and err its outcome.                        *)
(***************************************************************************)
\* all user ids of the event table, whatever the action or the day
AllUsers == {user_events[j].user_id : j \in DOMAIN user_events}

\* the raw match of a condition on the current table
Raw(c) == users_meeting_condition(user_events, now, c)

\* no condition of the list fails to evaluate
Defined(cs) == \A i \in DOMAIN cs : Raw(cs[i]).err = ""

Excluded(c) == Has(c, "include") /\ c.include = FALSE

\* S_i: the raw match, complemented against the universe when excluded
PerCondition(c) == IF Excluded(c) THEN AllUsers \ Raw(c).val ELSE Raw(c).val

\* every condition after the first carries the token AND or the token OR
StrictLogic(cs) ==
  \A i \in 2..Len(cs) : Has(cs[i], "logic") /\ cs[i].logic \in {"AND", "OR"}

Join(X, c, Y) == IF c.logic = "OR" THEN X \cup Y ELSE X \cap Y

\* ((S_1 j_2 S_2) j_3 S_3) ... j_n S_n, with j_i the logic of condition i
RECURSIVE LeftFold(_, _)
LeftFold(cs, n) ==
  IF n = 1 THEN PerCondition(cs[1])
  ELSE Join(LeftFold(cs, n - 1), cs[n], PerCondition(cs[n]))

\* C1: execute_cohort returns the left fold of the per-condition sets: the
\* accumulator starts as S_1 whatever logic condition 1 carries, and S_i is
\* joined with the logic of condition i itself, OR as union and AND as
\* intersection; for c1, c2 (OR), c3 (AND) the result is
\* (S_1 union S_2) intersect S_3; for two conditions it is the intersection
\* when condition 2 says AND and the union when it says OR.
C1_LeftFold ==
  (op = "execute_cohort" /\ Defined(arg.conditions) /\ StrictLogic(arg.conditions))
  => LET cs == arg.conditions
         S(i) == PerCondition(cs[i])
     IN  /\ err = ""
         /\ Range(result) = LeftFold(cs, Len(cs))
         /\ (Len(cs) = 2 /\ cs[2].logic = "AND") => Range(result) = S(1) \cap S(2)
         /\ (Len(cs) = 2 /\ cs[2].logic = "OR") => Range(result) = S(1) \cup S(2)
         /\ (Len(cs) = 3 /\ cs[2].logic = "OR" /\ cs[3].logic = "AND")
              => Range(result) = (S(1) \cup S(2)) \cap S(3)

\* a cohort c1 (AND), c2 (OR), c3 (AND) on which the two groupings differ
C1_Witness ==
  /\ op = "execute_cohort" /\ err = ""
  /\ Len(arg.conditions) = 3
  /\ LET cs == arg.conditions
         S(i) == PerCondition(cs[i])
     IN  /\ Has(cs[1], "logic") /\ cs[1].logic = "AND"
         /\ cs[2].logic = "OR" /\ cs[3].logic = "AND"
         /\ (S(1) \cup S(2)) \cap S(3) # S(1) \cup (S(2) \cap S(3))
         /\ S(1) \cap S(2) \cap S(3) # (S(1) \cup S(2)) \cap S(3)
         /\ Range(result) = (S(1) \cup S(2)) \cap S(3)

\* C2: an excluded condition stands for exactly universe minus rawMatches,
\* the universe being every user id of the event table whatever the action
\* or the day; that set is disjoint from rawMatches and together with it is
\* the universe.  In the scenario the excluded payment condition gives
\* {A, B}, and AND-combined with the prior {A} gives {A}.
C2_Complement ==
  /\ (op = "execute_cohort" /\ Len(arg.conditions) = 1
        /\ Excluded(arg.conditions[1]) /\ Defined(arg.conditions))
     => LET raw == Raw(arg.conditions[1]).val
        IN  /\ err = ""
            /\ Range(result) = AllUsers \ raw
            /\ Range(result) \cap raw = {}
            /\ Range(result) \cup raw = AllUsers
  /\ (op = "execute_cohort" /\ user_events = ScenarioEvents
        /\ arg.conditions = <<ScenarioCond2>>)
     => result = <<"A", "B">>
  /\ (op = "execute_cohort" /\ user_events = ScenarioEvents
        /\ arg.conditions = <<ScenarioCond1, ScenarioCond2>>)
     => result = <<"A">>

\* an excluded condition with a raw match, on a table where one user is in
\* the universe only through a row outside the window
C2_Witness ==
  /\ op = "execute_cohort" /\ err = ""
  /\ Len(arg.conditions) = 1 /\ Excluded(arg.conditions[1])
  /\ Raw(arg.conditions[1]).val # {}
  /\ result # <<>>
  /\ \E u \in Range(result) : \A j \in DOMAIN user_events :
        user_events[j].user_id = u =>
          user_events[j].timestamp < now - arg.conditions[1].timeframe

\* the rows (by position) of user u that condition c aggregates
MatchIdx(c, u) ==
  {j \in DOMAIN user_events :
     /\ user_events[j].user_id = u
     /\ user_events[j].event = c.action
     /\ user_events[j].timestamp >= now - c.timeframe}

PricedIdx(c, u) == {j \in MatchIdx(c, u) : user_events[j].price # NaN}

\* the prices of the rows J added up, a missing price counting 0
RECURSIVE SumPrice(_)
SumPrice(J) ==
  IF J = {} THEN 0
  ELSE LET j == CHOOSE k \in J : TRUE
           p == IF user_events[j].price = NaN THEN 0 ELSE user_events[j].price[1]
       IN  p + SumPrice(J \ {j})

IsAvgOfPrice(c) ==
  c.operation = "avg" /\ Has(c, "property") /\ c.property = "price"

\* C3 as claimed: the avg aggregate is the mean over all matching rows of
\* the user, a missing price counting as 0 in numerator and denominator.
C3_ZeroFilledMean ==
  (op = "users_meeting_condition" /\ IsAvgOfPrice(arg)
     /\ arg.condition \in Comparators)
  => result = {u \in AllUsers :
              /\ MatchIdx(arg, u) # {}
              /\ Compare(arg.condition,
                         <<SumPrice(MatchIdx(arg, u)), Cardinality(MatchIdx(arg, u))>>,
                         arg.value)}

\* C3 as amended: the avg aggregate is the mean over the matching rows of
\* the user that have a price (rows without one are skipped), and 0 for a
\* user none of whose matching rows has a price.
C3_MeanOfPriced ==
  (op = "users_meeting_condition" /\ IsAvgOfPrice(arg)
     /\ arg.condition \in Comparators)
  => /\ err = ""
     /\ result = {u \in AllUsers :
              /\ MatchIdx(arg, u) # {}
              /\ Compare(arg.condition,
                         IF PricedIdx(arg, u) = {} THEN <<0, 1>>
                         ELSE <<SumPrice(PricedIdx(arg, u)),
                                Cardinality(PricedIdx(arg, u))>>,
                         arg.value)}

\* a user with a priced and an unpriced matching row, matched by an avg
\* condition that the zero-filled mean would not satisfy
C3_Witness ==
  /\ op = "users_meeting_condition" /\ IsAvgOfPrice(arg)
  /\ arg.condition = ">="
  /\ \E u \in result :
       /\ PricedIdx(arg, u) # {}
       /\ PricedIdx(arg, u) # MatchIdx(arg, u)
       /\ ~Compare(arg.condition,
                   <<SumPrice(MatchIdx(arg, u)), Cardinality(MatchIdx(arg, u))>>,
                   arg.value)

\* the users whose number of matching rows satisfies the comparator
CountMatch(c) ==
  IF c.condition \notin Comparators THEN {}
  ELSE {u \in AllUsers :
          /\ MatchIdx(c, u) # {}
          /\ Compare(c.condition, <<Cardinality(MatchIdx(c, u)), 1>>, c.value)}

\* C4: a condition whose operation is none of count, sum, avg,
\* distinct_count has the raw match set of the same condition with
\* operation = count.
C4_FallbackIsCount ==
  (op = "users_meeting_condition"
     /\ arg.operation \notin {"count", "sum", "avg", "distinct_count"})
  => /\ err = ""
     /\ result = Raw([arg EXCEPT !.operation = "count"]).val
     /\ result = CountMatch(arg)

\* an unrecognised operation that matches somebody
C4_Witness ==
  /\ op = "users_meeting_condition" /\ err = ""
  /\ arg.operation = "median"
  /\ result # {}
  /\ result # AllUsers

\* C5: a condition whose comparator is outside >=, >, <=, <, == yields the
\* empty raw match set and raises no error, for every operation.
C5_UnknownComparatorEmpty ==
  (op = "users_meeting_condition" /\ arg.condition \notin Comparators)
  => (err = "" /\ result = {})

\* the value of cond.get("logic")
LogicValue(c) == Get(c, "logic", NoneVal)

\* C6 as claimed: at position 2, any logic value other than the token OR
\* combines by intersection and raises nothing.
C6_NotORIntersects ==
  (op = "execute_cohort" /\ Len(arg.conditions) = 2
     /\ Defined(arg.conditions) /\ LogicValue(arg.conditions[2]) # "OR")
  => /\ err = ""
     /\ Range(result) = PerCondition(arg.conditions[1])
                      \cap PerCondition(arg.conditions[2])

\* OR in any letter case
IsOr(l) == l \in {"OR", "Or", "oR", "or"}

JoinAnyCase(X, c, Y) == IF IsOr(LogicValue(c)) THEN X \cup Y ELSE X \cap Y

RECURSIVE LeftFoldAnyCase(_, _)
LeftFoldAnyCase(cs, n) ==
  IF n = 1 THEN PerCondition(cs[1])
  ELSE JoinAnyCase(LeftFoldAnyCase(cs, n - 1), cs[n], PerCondition(cs[n]))

\* C6 as amended: at every position i >= 2, any logic value that is not OR
\* in some letter case (AND, None, "", a missing logic key, an unrecognised
\* token) combines by intersection and raises nothing; OR in any letter
\* case combines by union.
C6_NotOrAnyCaseIntersects ==
  (op = "execute_cohort" /\ Defined(arg.conditions))
  => /\ err = ""
     /\ Range(result) = LeftFoldAnyCase(arg.conditions, Len(arg.conditions))
     /\ (Len(arg.conditions) = 2 /\ ~IsOr(LogicValue(arg.conditions[2])))
          => Range(result) = PerCondition(arg.conditions[1])
                          \cap PerCondition(arg.conditions[2])

\* an unrecognised token at position 2, on sets whose union and
\* intersection differ
C6_Witness ==
  /\ op = "execute_cohort" /\ err = ""
  /\ Len(arg.conditions) = 2
  /\ LogicValue(arg.conditions[2]) = "XOR"
  /\ LET S1 == PerCondition(arg.conditions[1])
         S2 == PerCondition(arg.conditions[2])
     IN  S1 \cap S2 # S1 \cup S2 /\ S1 \cap S2 # {} /\ Range(result) = S1 \cap S2

\* every required key of a condition is present
WellFormed(c) == {"action", "operation", "condition", "value"} \subseteq DOMAIN c

\* C7: evaluating a cohort whose conditions carry all required fields never
\* raises, whatever the operation, property, comparator and logic values.
C7_NeverRaises ==
  (op = "execute_cohort" /\ \A i \in DOMAIN arg.conditions : WellFormed(arg.conditions[i]))
  => err = ""

\* the first cohort of the registry with the id looked up
Hits == {i \in DOMAIN cohorts : cohorts[i].id = arg}

FirstHit == cohorts[CHOOSE i \in Hits : \A j \in Hits : i <= j]

\* C8: get_cohort_users returns the empty sequence, without raising and
\* without evaluating any condition, when no cohort has the id or the
\* cohort with the id is inactive (active false or absent); otherwise it
\* returns what execute_cohort returns for that cohort.
C8_LookupMiss ==
  op = "get_cohort_users"
  => IF Hits = {} THEN err = "" /\ result = <<>>
     ELSE IF ~Has(FirstHit, "active") \/ FirstHit.active = FALSE
       THEN err = "" /\ result = <<>>
     ELSE LET r == execute_cohort(user_events, now, FirstHit)
          IN  err = r.err /\ result = r.val

\* a lookup of an inactive cohort whose conditions cannot be evaluated
C8_Witness ==
  /\ op = "get_cohort_users"
  /\ Hits # {}
  /\ Has(FirstHit, "active") /\ FirstHit.active = FALSE
  /\ execute_cohort(user_events, now, FirstHit).err # ""
  /\ err = "" /\ result = <<>>

\* C9: create_cohort gives the new cohort the id (number of cohorts) + 1,
\* sets it active and appends it; starting from the six sample cohorts and
\* under any sequence of create, get-users and summary calls the ids are
\* 1..N in registry order, so no two cohorts share an id.
C9_IdsAreOneToN ==
  /\ \A i \in DOMAIN cohorts : cohorts[i].id = i
  /\ \A i, j \in DOMAIN cohorts : cohorts[i].id = cohorts[j].id => i = j
  /\ op = "create_cohort"
       => /\ result.id = Len(cohorts)
          /\ result.active = TRUE
          /\ result.conditions = arg
          /\ cohorts[Len(cohorts)] = result

\* a second cohort has been created
C9_Witness ==
  /\ op = "create_cohort"
  /\ Len(cohorts) > Len(SampleCohorts) + 1
  /\ result.id = Len(cohorts)

\* C10: a condition list with a condition that lacks a required key is
\* rejected by create_cohort with an error, and looking up a stored cohort
\* with such a condition raises nothing.
C10_RejectedAtCreation ==
  /\ (op = "create_cohort" /\ \E i \in DOMAIN arg : ~WellFormed(arg[i]))
       => err # ""
  /\ (op = "get_cohort_users" /\ Hits # {}
        /\ \E i \in DOMAIN FirstHit.conditions : ~WellFormed(FirstHit.conditions[i]))
       => err = ""

\* the conditions list of the cohort handed to execute_cohort
ConditionsOf(cohort) == Get(cohort, "conditions", <<>>)

\* no row of the table has the action of c inside the window of c
NoMatchingEvent(c) == \A u \in AllUsers : MatchIdx(c, u) = {}

\* C11: a cohort with an empty conditions list or without a conditions key
\* evaluates to the empty sequence and raises nothing, whatever the table;
\* a condition whose action has no event inside the window gives the empty
\* raw match set and raises nothing, for every operation, property and
\* comparator.
C11_EmptyInputs ==
  /\ (op = "execute_cohort" /\ ConditionsOf(arg) = <<>>)
       => (err = "" /\ result = <<>>)
  /\ (op = "users_meeting_condition" /\ NoMatchingEvent(arg))
       => (err = "" /\ result = {})

\* a cohort without a conditions key evaluated on a table with users
C11_Witness ==
  /\ op = "execute_cohort"
  /\ ~Has(arg, "conditions")
  /\ AllUsers # {}
  /\ err = "" /\ result = <<>>

\* the position of user u in the ascending order of user ids
Rank(u) == CHOOSE k \in DOMAIN UserOrder : UserOrder[k] = u

Ascending(users) ==
  \A i, j \in DOMAIN users : i < j => Rank(users[i]) < Rank(users[j])

\* C12: no create, get-users or summary call changes what an evaluation of
\* a cohort of the registry yields (the same sequence, or the same error,
\* before and after the call), so repeated evaluations of a cohort agree
\* whatever is called in between; a get-users call returns exactly that
\* outcome, and every sequence it returns is strictly ascending by user
\* id, hence sorted and free of duplicates.
C12_SameSequenceEachTime ==
  [][/\ \A id \in DOMAIN cohorts :
          get_cohort_users(cohorts', user_events', now', id)
            = get_cohort_users(cohorts, user_events, now, id)
     /\ op' = "get_cohort_users"
          => /\ err' = get_cohort_users(cohorts, user_events, now, arg').err
             /\ err' = ""
                  => /\ result' = get_cohort_users(cohorts, user_events, now, arg').val
                     /\ Ascending(result')]_vars

\* a cohort created after the samples evaluates to both users
C12_Witness ==
  /\ op = "get_cohort_users" /\ err = ""
  /\ arg > Len(SampleCohorts)
  /\ result = UserOrder

\* the outcome of a call as left in the state
Outcome == [err |-> err, val |-> result]

\* C13: a call of execute_cohort, get_cohort_users or analyze_cohorts
\* leaves the event table, the captured now and the registry (its length
\* and every cohort's id, active flag and condition list) as they were;
\* and in any sequence of such calls each call has the outcome it has when
\* made alone on the snapshot.
C13_EvaluationIsPure ==
  [][op' \in {"execute_cohort", "get_cohort_users", "analyze_cohorts"}
       => /\ user_events' = user_events
          /\ now' = now
          /\ Len(cohorts') = Len(cohorts)
          /\ \A i \in DOMAIN cohorts :
                /\ cohorts'[i].id = cohorts[i].id
                /\ cohorts'[i].active = cohorts[i].active
                /\ cohorts'[i].conditions = cohorts[i].conditions
          /\ cohorts' = SampleCohorts
          /\ op' = "execute_cohort"
               => Outcome' = execute_cohort(user_events, now, arg')
          /\ op' = "get_cohort_users"
               => Outcome' = get_cohort_users(SampleCohorts, user_events, now, arg')
          /\ op' = "analyze_cohorts"
               => Outcome' = analyze_cohorts(SampleCohorts, user_events, now)]_vars

\* a cohort evaluated to a user right after the summary was computed
C13_Witness ==
  /\ op = "get_cohort_users" /\ err = ""
  /\ result # <<>>
  /\ cohorts = SampleCohorts

\* the thresholds a condition is re-evaluated with
Thresholds == Values \cup {0, 2, 3, 1500, 3000, 3500, 4000}

\* C14: for a condition with comparator >= and value v1, and every value
\* v2 >= v1, the same condition with value v2 (same table, action,
\* operation, property and timeframe) has a raw match set that is a subset
\* of the raw match set with v1; a condition that cannot be evaluated has
\* no raw match set with either value.
C14_MonotoneInValue ==
  (op = "users_meeting_condition" /\ arg.condition = ">=")
  => \A v2 \in Thresholds :
       v2 >= arg.value
       => LET raw2 == Raw([arg EXCEPT !.value = v2])
          IN  /\ raw2.err = err
              /\ err = "" => raw2.val \subseteq result

\* a sum of prices that reaches the threshold 3000 and not the threshold
\* 4000
C14_Witness ==
  /\ op = "users_meeting_condition" /\ err = ""
  /\ arg.condition = ">=" /\ arg.operation = "sum" /\ arg.value = 3000
  /\ result # {}
  /\ Raw([arg EXCEPT !.value = 4000]).val # result

\* the active cohorts of the registry, in registry order
ActiveCohorts == SelectSeq(cohorts, LAMBDA c : Get(c, "active", FALSE))

\* C15: analyze_cohorts returns one row per active cohort, in registry
\* order, and none for a cohort that is inactive; the row carries the
\* cohort's id, as user_count the length of get_cohort_users(id) and as
\* conditions_count the number of conditions of the cohort.
C15_OneRowPerActiveCohort ==
  op = "analyze_cohorts"
  => /\ err = ""
     /\ Len(result) = Len(ActiveCohorts)
     /\ \A k \in DOMAIN result :
          /\ result[k].cohort_id = ActiveCohorts[k].id
          /\ result[k].cohort_name = ActiveCohorts[k].name
          /\ result[k].user_count
               = Len(get_cohort_users(cohorts, user_events, now,
                                      ActiveCohorts[k].id).val)
          /\ result[k].conditions_count = Len(ActiveCohorts[k].conditions)

IsSumOfPrice(c) ==
  c.operation = "sum" /\ Has(c, "property") /\ c.property = "price"

\* C16: for a sum condition on price the aggregate of a user is the sum of
\* the prices of the user's matching rows in the window, a row without a
\* price adding 0; a user with matching rows, none of them priced, has the
\* sum 0 and is compared like any other; the raw match is the set of users
\* with a matching row whose sum satisfies the comparator.  In the scenario
\* (A: 2000 and 1500, B: 500, sum >= 3000 over 7 days) the raw match is
\* {A}.
C16_SumOfPrice ==
  /\ (op = "users_meeting_condition" /\ IsSumOfPrice(arg)
        /\ arg.condition \in Comparators)
     => /\ err = ""
        /\ result = {u \in AllUsers :
                       /\ MatchIdx(arg, u) # {}
                       /\ Compare(arg.condition,
                                  <<SumPrice(MatchIdx(arg, u)), 1>>, arg.value)}
  /\ (op = "users_meeting_condition" /\ user_events = ScenarioEvents
        /\ arg = ScenarioCond1)
     => (err = "" /\ result = {"A"})

\* a user whose matching rows all lack a price is matched by a sum
\* condition that accepts 0
C16_Witness ==
  /\ op = "users_meeting_condition" /\ IsSumOfPrice(arg) /\ err = ""
  /\ \E u \in result : PricedIdx(arg, u) = {} /\ MatchIdx(arg, u) # {}
  /\ \E u \in AllUsers \ result : PricedIdx(arg, u) # {}

\* the rows of the table with the action of c and a timestamp at or after
\* now - timeframe days
InWindow(c) ==
  SelectSeq(user_events,
            LAMBDA e : e.event = c.action /\ e.timestamp >= now - c.timeframe)

\* C17: a row contributes to the aggregate of its user iff its action is
\* the condition's and its timestamp is at or after now - timeframe days:
\* the rows of other actions and the older rows change no outcome (the
\* condition evaluates on the rows in the window alone as on the whole
\* table), and each row in the window, the rows exactly at the cutoff
\* included, counts (a count condition matches the users whose number of
\* rows in the window satisfies the comparator); now is the instant
\* captured at construction, the same at every evaluation.
C17_WindowIsInclusive ==
  /\ [](op = "users_meeting_condition"
          => /\ Outcome = users_meeting_condition(InWindow(arg), now, arg)
             /\ (arg.operation = "count" /\ arg.condition \in Comparators)
                  => (err = "" /\ result = CountMatch(arg)))
  /\ [](op = "execute_cohort"
          => \A i \in DOMAIN ConditionsOf(arg) :
               Raw(ConditionsOf(arg)[i])
                 = users_meeting_condition(InWindow(ConditionsOf(arg)[i]), now,
                                           ConditionsOf(arg)[i]))
  /\ [][now' = now]_vars

\* a user with one row exactly at the cutoff and an older row of the same
\* action is matched by count == 1
C17_Witness ==
  /\ op = "users_meeting_condition" /\ err = ""
  /\ arg.operation = "count" /\ arg.condition = "==" /\ arg.value = 1
  /\ \E u \in result :
       /\ \A j \in MatchIdx(arg, u) : user_events[j].timestamp = now - arg.timeframe
       /\ \E j \in DOMAIN user_events :
            /\ user_events[j].user_id = u
            /\ user_events[j].event = arg.action
            /\ user_events[j].timestamp < now - arg.timeframe

\* C18: a raw match holds only users of the table with at least one row of
\* the condition's action inside the window; a user without such a row is
\* in no raw match, not even under count < 1, count <= 3 or count == 0,
\* which an aggregate of 0 would satisfy; every raw match and every cohort
\* result is a subset of the universe.
C18_OnlyUsersWithEvents ==
  /\ (op = "users_meeting_condition" /\ err = "")
       => /\ \A u \in result : u \in AllUsers /\ MatchIdx(arg, u) # {}
          /\ result \subseteq Universe(user_events)
  /\ (op = "execute_cohort" /\ err = "")
       => Range(result) \subseteq Universe(user_events)

\* count <= 3 matches a user with a row in the window and leaves out a user
\* of the table without one
C18_Witness ==
  /\ op = "users_meeting_condition" /\ err = ""
  /\ arg.operation = "count" /\ arg.condition = "<=" /\ arg.value = 3
  /\ result # {}
  /\ \E u \in AllUsers \ result : MatchIdx(arg, u) = {}

\* C19: a sum or avg condition whose property is not price, or that has no
\* property key, raises nothing and has the raw match set of the same
\* condition with operation count: the users whose number of rows in the
\* window satisfies the comparator.
C19_SumAvgOfOtherPropertyIsCount ==
  (op = "users_meeting_condition" /\ arg.operation \in {"sum", "avg"}
     /\ (Has(arg, "property") => arg.property # "price"))
  => /\ err = ""
     /\ result = Raw([arg EXCEPT !.operation = "count"]).val
     /\ result = CountMatch(arg)

\* a sum over sku_id matches a user by the number of rows, where the sum
\* of the prices would not
C19_Witness ==
  /\ op = "users_meeting_condition" /\ err = ""
  /\ arg.operation = "sum" /\ Has(arg, "property") /\ arg.property = "sku_id"
  /\ result # {}
  /\ Raw([arg EXCEPT !.property = "price"]).val # result

\* C20: a create_cohort call appends one cohort and changes nothing else:
\* every cohort already in the registry keeps its position, id, active
\* flag and conditions, the event table and now are as before, and
\* get_cohort_users has, for the id of each cohort already there, the
\* outcome it had before the call; the returned cohort is the one
\* get_cohort_users finds under the returned id and evaluates.
C20_CreateAppendsOnly ==
  [][op' = "create_cohort"
       => /\ Len(cohorts') = Len(cohorts) + 1
          /\ \A i \in DOMAIN cohorts :
                /\ cohorts'[i].id = cohorts[i].id
                /\ cohorts'[i].active = cohorts[i].active
                /\ cohorts'[i].conditions = cohorts[i].conditions
                /\ cohorts'[i] = cohorts[i]
          /\ user_events' = user_events
          /\ now' = now
          /\ \A i \in DOMAIN cohorts :
                get_cohort_users(cohorts', user_events', now', cohorts[i].id)
                  = get_cohort_users(cohorts, user_events, now, cohorts[i].id)
          /\ Lookup(cohorts', result'.id) = <<result'>>
          /\ cohorts'[Len(cohorts')] = result'
          /\ get_cohort_users(cohorts', user_events', now', result'.id)
               = execute_cohort(user_events', now', result')]_vars

\* a second cohort has been created and is found, with its users, under
\* the returned id
C20_Witness ==
  /\ op = "create_cohort"
  /\ Len(cohorts) = Len(SampleCohorts) + 2
  /\ get_cohort_users(cohorts, user_events, now, result.id).err = ""
  /\ get_cohort_users(cohorts, user_events, now, result.id).val # <<>>
  /\ get_cohort_users(cohorts, user_events, now, result.id - 1).err = ""
  /\ get_cohort_users(cohorts, user_events, now, result.id - 1).val # <<>>

====
